---- MODULE Spec2Model ----
(***************************************************************************)
(* State-machine model of the nfvo_packager CSAR tooling:                  *)
(*   reader.py  CSARReader  (retrieve, extract, validate, __del__)         *)
(*   writer.py  CSARWriter  (build, self-validate, sign, verify)           *)
(*   csar.py    CSAR        (validate, accessors)                          *)
(* Files, YAML documents and digests are modelled by small finite          *)
(* domains; every stage of a constructor is one action.                    *)
(***************************************************************************)
EXTENDS Integers, Sequences, FiniteSets, TLC

VARIABLES
    mode,    \* which program runs: "read", "build", "sign", "csar", "access",
             \* "artifact" or "pair"
    fs,      \* the filesystem: path -> node
    net,     \* what a remote fetch of the source does
    csar,    \* CSARReader.csar
    pc,      \* position of the CSARReader constructor / destructor
    err,     \* the exception that left CSARReader.__init__
    warns,   \* log.warn calls made by the reader
    ran,     \* the reader stages run so far, in order
    wcsar,   \* CSARWriter.csar
    wpc,     \* position of the CSARWriter constructor
    werr,    \* the exception that left CSARWriter.__init__
    wreader, \* CSARWriter.reader is set
    sigfile, \* the text of the detached signature file
    made,    \* the last create_signature call: its key, the bytes signed, its digest
    last,    \* the last create_signature / verify_signature call and its result
    cobj,    \* the fields of the CSAR object
    cres,    \* the last call on the CSAR object and its result
    cpc,     \* position of CSAR.validate()
    cpend,   \* what the running CSAR.validate() will raise or return
    cget,    \* the last accessor call on the CSAR object and its result
    cvalid,  \* a validate() run on the CSAR object has succeeded
    acall,   \* the last _validate_artifact call and its result
    csar2,   \* CSARReader.csar of a second reader in the same process
    pc2,     \* position of the second reader's constructor / destructor
    err2,    \* the exception that left the second reader's constructor
    ran2,    \* the second reader's stages run so far
    net2,    \* what a remote fetch of the second reader's source does
    fs0      \* the filesystem before the two instances ran

readerVars == <<csar, pc, err, warns, ran>>
writerVars == <<wcsar, wpc, werr, wreader>>
sigVars == <<sigfile, made, last>>
csarVars == <<cobj, cres, cpc, cpend, cget, cvalid>>
artVars == <<acall>>
pairVars == <<csar2, pc2, err2, ran2, net2, fs0>>
vars == <<mode, fs, net, readerVars, writerVars, sigVars, csarVars, artVars, pairVars>>

(***************************************************************************)
(* constants.py                                                            *)
(***************************************************************************)
META_FILE == "TOSCA-Metadata/TOSCA.meta"
META_FILE_VERSION_KEY == "TOSCA-Meta-File-Version"
META_CSAR_VERSION_KEY == "CSAR-Version"
META_CREATED_BY_KEY == "Created-By"
META_ENTRY_DEFINITIONS_KEY == "Entry-Definitions"
META_TMPL_NAME_KEY == "template_name"
META_TMPL_AUTHOR_KEY == "template_author"
META_TMPL_VERSION_KEY == "template_version"
\* constants.py defines no META_MIMETYPES_GLOB, which reader.py:293 reads.
HasMimetypesGlob == FALSE

(***************************************************************************)
(* Python values held in a YAML mapping.                                   *)
(***************************************************************************)
Absent == [t |-> "absent", v |-> ""]          \* key not in the mapping
Null == [t |-> "null", v |-> ""]              \* None
S(x) == [t |-> "str", v |-> x]                \* a str
F(x) == [t |-> "float", v |-> x]              \* a float, v its repr
AbsPath(x) == [t |-> "abspath", v |-> x]      \* the str "<extracted root>/x"

\* str(value)
Str(val) == IF val.t = "null" THEN "None" ELSE val.v
\* bool(value), for a value that is in the mapping
Truthy(val) == ~(val.t = "null" \/ (val.t = "str" /\ val.v = ""))
\* KEY in mapping
Has(val) == val.t # "absent"

(***************************************************************************)
(* YAML text: a scalar is plain or quoted.  yaml.load resolves a plain     *)
(* scalar to its implicit type; yaml.dump quotes a str that would not      *)
(* load back as a str.                                                     *)
(***************************************************************************)
NoTok == [p |-> "absent", text |-> ""]
Plain(x) == [p |-> "plain", text |-> x]
Quoted(x) == [p |-> "quoted", text |-> x]

\* plain scalars the YAML resolver reads as floats, with repr(float(text))
FloatTexts == {"1.0", "1.1", "1.10"}
FloatRepr(text) == IF text = "1.10" THEN "1.1" ELSE text

YamlLoadScalar(tok) ==
    CASE tok.p = "absent" -> Absent
      [] tok.p = "quoted" -> S(tok.text)
      [] OTHER -> IF tok.text = "" THEN Null
                  ELSE IF tok.text \in FloatTexts THEN F(FloatRepr(tok.text))
                  ELSE S(tok.text)

YamlDumpScalar(val) ==
    CASE val.t = "absent" -> NoTok
      [] val.t = "null" -> Plain("")
      [] val.t = "float" -> Plain(val.v)
      [] OTHER -> IF val.v = "" \/ val.v \in FloatTexts THEN Quoted(val.v)
                  ELSE Plain(val.v)

(***************************************************************************)
(* Archive contents.                                                       *)
(*   zip       "valid", "badmember" (a ZIP whose extraction fails          *)
(*             part-way), "notzip", "partial" (an interrupted download),   *)
(*             "none" (no data)                                            *)
(*   files     the regular files other than TOSCA-Metadata/TOSCA.meta      *)
(*   meta      the text of TOSCA-Metadata/TOSCA.meta                       *)
(*   inline    the text of the root-level YAML template(s)                 *)
(*   artifacts the "artifacts" mapping of the metadata                     *)
(*   tpl       the text of the template Entry-Definitions names            *)
(*   bytes     the content of the file art.bin                             *)
(***************************************************************************)
RootYaml == {"service.yaml", "types.yml", ".ci.yml"}
FileNames == RootYaml \cup {"art.bin"}
ArtNames == {"art.bin", "gone.bin"}

\* the part of a root entry's name after its last dot
Ext(name) ==
    CASE name = "service.yaml" -> "yaml"
      [] name = "types.yml" -> "yml"
      [] name = ".ci.yml" -> "yml"
      [] OTHER -> "bin"
\* the name starts with a dot
Hidden(name) == name = ".ci.yml"

NoMetaFile == [kind |-> "nofile", mfv |-> NoTok, av |-> NoTok,
               author |-> NoTok, entry |-> NoTok]
MetaText(k, a, b, c, d) == [kind |-> k, mfv |-> a, av |-> b,
                            author |-> c, entry |-> d]
NoInline == [kind |-> "nosection", tv |-> NoTok, ta |-> NoTok, tn |-> NoTok]
InlineText(k, a, b, c) == [kind |-> k, tv |-> a, ta |-> b, tn |-> c]

\* the "digest" field of a signature block: empty, or a text that is the
\* base64 encoding ("b64") or the bare hex text ("plain") of a digest, the
\* digest being the raw bytes ("raw") or the hex text ("hex") of algo(bytes)
NoDigest == [enc |-> "empty", form |-> "", algo |-> "", bytes |-> ""]
Digest(enc, form, algo, bytes) ==
    [enc |-> enc, form |-> form, algo |-> algo, bytes |-> bytes]
NoSig == [present |-> FALSE, algo |-> "", digest |-> NoDigest]
Sig(a, d) == [present |-> TRUE, algo |-> a, digest |-> d]
\* an artifact descriptor: content-type split at "/" and the signature block
Desc(hasct, parts, sig) == [hasct |-> hasct, ct |-> parts, sig |-> sig]
NoArtifacts == [n \in {} |-> Desc(FALSE, <<>>, NoSig)]

\* a reference value of a template: a relative path, an absolute path, a
\* path whose ".." segments leave the extracted root, or a URL
Ref(k, n) == [kind |-> k, name |-> n]
\* the template: its imports list, and the artifact and operation entries
\* of its node template
NoTpl == [kind |-> "mapping", hasImports |-> FALSE, imports |-> <<>>,
          artifacts |-> <<>>, operations |-> <<>>]

Blank == [zip |-> "none", files |-> {}, meta |-> NoMetaFile,
          inline |-> NoInline, artifacts |-> NoArtifacts, tpl |-> NoTpl,
          bytes |-> "orig"]
Partial == [Blank EXCEPT !.zip = "partial"]

(***************************************************************************)
(* The filesystem.                                                         *)
(***************************************************************************)
SrcZip == "pkg.zip"          \* a local source archive
SrcZipDot == "./pkg.zip"     \* the same file, written un-normalized
SrcUrl == "http://host/pkg.zip"
SrcDir == "pkgdir"           \* a source directory for the builder
SrcOther == "pkg.tar"        \* a source file whose name does not end in .zip
OutZip == "build.csar.zip"   \* the builder's output path
TmpFileR == "/tmp/tmpR"      \* mkstemp() of the reader
TmpDirR == "/tmp/tmpdirR"    \* mkdtemp() of the reader
TmpFileW == "/tmp/tmpW.csar.zip"   \* mkstemp('.csar.zip') of the builder
TmpDirC == "/tmp/tmpC"       \* tempfile.NamedTemporaryFile().name of CSAR
SrcZip2 == "pkg2.zip"        \* the local source archive of a second reader
TmpFileR2 == "/tmp/tmpR2"    \* mkstemp() of a second reader
TmpDirR2 == "/tmp/tmpdirR2"  \* mkdtemp() of a second reader
Paths == {SrcZip, SrcDir, SrcOther, OutZip, TmpFileR, TmpDirR, TmpFileW, TmpDirC,
          SrcZip2, TmpFileR2, TmpDirR2}
None == "None"

NoNode == [kind |-> "none", data |-> Blank]
File(d) == [kind |-> "file", data |-> d]
Dir(d) == [kind |-> "dir", data |-> d]

\* os.path.normpath
Normpath(p) == IF p = SrcZipDot THEN SrcZip ELSE p
\* the node a path string names (the OS resolves "./x" to "x")
Node(f, p) == IF Normpath(p) \in DOMAIN f THEN f[Normpath(p)] ELSE NoNode
IsFile(f, p) == Node(f, p).kind = "file"
IsDir(f, p) == Node(f, p).kind = "dir"
Exists(f, p) == Node(f, p).kind # "none"
\* zipfile.is_zipfile: False for a missing file and for non-ZIP bytes
IsZipfile(f, p) == IsFile(f, p) /\ Node(f, p).data.zip \in {"valid", "badmember"}

(***************************************************************************)
(* Exceptions.                                                             *)
(***************************************************************************)
NoErr == [type |-> "none", msg |-> "", arg |-> ""]
RuntimeError(m, a) == [type |-> "RuntimeError", msg |-> m, arg |-> a]
Exc(t, m) == [type |-> t, msg |-> m, arg |-> ""]

(***************************************************************************)
(* reader.py: CSARReader                                                   *)
(***************************************************************************)
\* the metadata dict; csar['metadata'] starts as None
NoneMeta == [isNone |-> TRUE, mfv |-> Absent, av |-> Absent, author |-> Absent,
             entry |-> Absent, tv |-> Absent, ta |-> Absent, tn |-> Absent,
             artifacts |-> NoArtifacts]

\* CSARReader.__init__, lines 48-55
NewReader(source, external) ==
    [source |-> source, external |-> external, local |-> None,
     destination |-> None, metadata |-> NoneMeta]

\* the extracted tree under csar['destination']
Tree(f, c) == Node(f, c.destination).data

\* has_metadata_file
HasMetadataFile(tree) == tree.meta.kind # "nofile"

\* _retrieve: the new csar, the new filesystem and the exception raised
Retrieve(c, f, n) ==
    IF ~c.external
    THEN [csar |-> [c EXCEPT !.local = Normpath(c.source)], fs |-> f, err |-> NoErr]
    ELSE CASE n.outcome = "invalid_url" ->
                [csar |-> c, fs |-> [f EXCEPT ![TmpFileR] = File(Blank)],
                 err |-> Exc("MissingSchema", "Invalid URL")]
           [] n.outcome = "refused" ->
                [csar |-> c, fs |-> [f EXCEPT ![TmpFileR] = File(Blank)],
                 err |-> Exc("ConnectionError", "connection refused")]
           [] n.outcome = "interrupted" ->
                [csar |-> c, fs |-> [f EXCEPT ![TmpFileR] = File(Partial)],
                 err |-> Exc("ChunkedEncodingError", "connection broken")]
           [] OTHER ->
                [csar |-> [c EXCEPT !.local = TmpFileR],
                 fs |-> [f EXCEPT ![TmpFileR] = File(n.data)], err |-> NoErr]

\* a member name with ".." segments, and the name zipfile.extractall writes
\* it under: ZipFile._extract_member drops the ".." components of a member
\* name and extracts the rest below the target directory
Traversal == "../evil.sh"
SanitizeName(n) == IF n = Traversal THEN "evil.sh" ELSE n
\* zfile.extractall(target): the tree written below the target
ExtractAll(data) == [data EXCEPT !.files = {SanitizeName(n) : n \in @}]

\* _extract
Extract(c, f) ==
    IF c.local = None \/ c.local = ""
    THEN [csar |-> c, fs |-> f, err |-> RuntimeError("Missing CSAR file", "")]
    ELSE IF ~IsZipfile(f, c.local)
    THEN [csar |-> c, fs |-> f,
          err |-> RuntimeError("CSAR file is not in ZIP format", "")]
    ELSE IF Node(f, c.local).data.zip = "badmember"
    THEN [csar |-> c, fs |-> [f EXCEPT ![TmpDirR] = Dir(Partial)],
          err |-> Exc("BadZipfile", "Bad CRC-32")]
    ELSE [csar |-> [c EXCEPT !.destination = TmpDirR],
          fs |-> [f EXCEPT ![TmpDirR] = Dir(ExtractAll(Node(f, c.local).data))],
          err |-> NoErr]

\* _validate, lines 179-182
CheckRoot(c, f) ==
    IF c.destination = None \/ ~IsDir(f, c.destination)
    THEN RuntimeError("Missing CSAR contents", "") ELSE NoErr

\* yaml.load of TOSCA-Metadata/TOSCA.meta, for a text that is a mapping
LoadMetaFile(tree) ==
    [isNone |-> FALSE,
     mfv |-> YamlLoadScalar(tree.meta.mfv), av |-> YamlLoadScalar(tree.meta.av),
     author |-> YamlLoadScalar(tree.meta.author),
     entry |-> YamlLoadScalar(tree.meta.entry),
     tv |-> Absent, ta |-> Absent, tn |-> Absent,
     artifacts |-> tree.artifacts]

\* _validate_metadata_file, lines 210-229, on a loaded mapping
CheckMetaFile(m) ==
    IF ~Has(m.mfv) THEN RuntimeError("Missing metadata", META_FILE_VERSION_KEY)
    ELSE IF Str(m.mfv) # "1.0"
    THEN RuntimeError("Metadata must be 1.0", META_FILE_VERSION_KEY)
    ELSE IF ~Has(m.av) THEN RuntimeError("Missing metadata", META_CSAR_VERSION_KEY)
    ELSE IF Str(m.av) # "1.1"
    THEN RuntimeError("Metadata must be 1.1", META_CSAR_VERSION_KEY)
    ELSE IF ~Has(m.author) \/ ~Truthy(m.author)
    THEN RuntimeError("Missing metadata", META_CREATED_BY_KEY)
    ELSE IF ~Has(m.entry) \/ ~Truthy(m.entry)
    THEN RuntimeError("Missing metadata", META_ENTRY_DEFINITIONS_KEY)
    ELSE NoErr

\* _validate_metadata_file: the exception raised and the metadata stored
ValidateMetadataFile(tree) ==
    CASE tree.meta.kind = "nofile" ->
            [err |-> RuntimeError("Missing CSAR metadata file", ""), metadata |-> NoneMeta]
      [] tree.meta.kind = "invalid" ->
            [err |-> Exc("YAMLError", "could not parse"), metadata |-> NoneMeta]
      [] tree.meta.kind = "empty" ->
            \* yaml.load gives None; "KEY not in None" raises
            [err |-> Exc("TypeError", "argument of type 'NoneType' is not iterable"),
             metadata |-> NoneMeta]
      [] tree.meta.kind = "list" ->
            \* "KEY not in [...]" is True
            [err |-> RuntimeError("Missing metadata", META_FILE_VERSION_KEY),
             metadata |-> NoneMeta]
      [] OTHER ->
            LET m == LoadMetaFile(tree) IN
            IF CheckMetaFile(m) # NoErr
            THEN [err |-> CheckMetaFile(m), metadata |-> NoneMeta]
            ELSE [err |-> NoErr, metadata |-> m]

\* glob('%s/*.%s' % (self.path, ext)): "*" does not match a leading dot
Glob(tree, ext) == {n \in tree.files \cap RootYaml : Ext(n) = ext /\ ~Hidden(n)}

\* lines 238-241
RootDefs(tree) == Glob(tree, "yaml") \cup Glob(tree, "yml")

\* lines 252-268, on the loaded "metadata" section
CheckInline(m) ==
    IF ~Has(m.tv) THEN RuntimeError("Missing metadata", META_TMPL_VERSION_KEY)
    ELSE IF Str(m.tv) # "1.1"
    THEN RuntimeError("Metadata must be 1.1", META_TMPL_VERSION_KEY)
    ELSE IF ~Has(m.ta) \/ ~Truthy(m.ta)
    THEN RuntimeError("Missing metadata", META_TMPL_AUTHOR_KEY)
    ELSE IF ~Has(m.tn) \/ ~Truthy(m.tn)
    THEN RuntimeError("Missing metadata", META_TMPL_NAME_KEY)
    ELSE NoErr

LoadInline(tree) ==
    [isNone |-> FALSE, mfv |-> Absent, av |-> Absent, author |-> Absent,
     entry |-> Absent,
     tv |-> YamlLoadScalar(tree.inline.tv), ta |-> YamlLoadScalar(tree.inline.ta),
     tn |-> YamlLoadScalar(tree.inline.tn), artifacts |-> tree.artifacts]

\* _validate_metadata_inline
ValidateMetadataInline(tree) ==
    IF Cardinality(RootDefs(tree)) # 1
    THEN [err |-> RuntimeError("Exactly 1 YAML file must exist in the CSAR root directory", ""),
          metadata |-> NoneMeta]
    ELSE CASE tree.inline.kind = "invalid" ->
                [err |-> Exc("YAMLError", "could not parse"), metadata |-> NoneMeta]
           [] tree.inline.kind = "empty" ->
                [err |-> Exc("AttributeError", "'NoneType' object has no attribute 'get'"),
                 metadata |-> NoneMeta]
           [] tree.inline.kind = "nosection" ->
                [err |-> RuntimeError("Missing metadata section", ""), metadata |-> NoneMeta]
           [] OTHER ->
                LET m == LoadInline(tree)
                    def == CHOOSE n \in RootDefs(tree) : TRUE IN
                IF CheckInline(m) # NoErr
                THEN [err |-> CheckInline(m), metadata |-> NoneMeta]
                ELSE [err |-> NoErr, metadata |-> [m EXCEPT !.entry = AbsPath(def)]]

\* _validate, lines 184-187
ValidateMetadata(tree) ==
    IF HasMetadataFile(tree) THEN ValidateMetadataFile(tree)
    ELSE ValidateMetadataInline(tree)

\* os.path.isfile(os.path.join(self.path, value))
IsFileUnder(tree, val) ==
    CASE val.t = "abspath" -> val.v \in tree.files
      [] val.t = "str" -> val.v \in tree.files
      [] OTHER -> FALSE

\* _validate_entry_definitions
ValidateEntryDefinitions(tree, m) ==
    IF ~HasMetadataFile(tree) THEN NoErr
    ELSE IF m.entry.t \notin {"str", "abspath"}
    THEN Exc("AttributeError", "os.path.join of a non-string")
    ELSE IF ~IsFileUnder(tree, m.entry)
    THEN RuntimeError("points to a file that does not exist", META_ENTRY_DEFINITIONS_KEY)
    ELSE NoErr

\* the MIME table after mimetypes.init, and mimetypes.guess_type by extension
KnownMime == {<<"text", "plain">>, <<"application", "octet-stream">>}
GuessType(name) == IF Ext(name) = "bin" THEN <<"application", "octet-stream">>
                   ELSE <<>>
\* tstype[-1].startswith('vnd.')
IsVnd(sub) == sub \in {"vnd.tosca.artifact"}

\* base64.b64decode(digest).strip(): the bytes the text encodes; a bare hex
\* text is itself valid base64 and decodes to other bytes
B64Decode(d) ==
    IF d.enc = "b64" THEN [form |-> d.form, algo |-> d.algo, bytes |-> d.bytes]
    ELSE [form |-> "garbage", algo |-> d.algo, bytes |-> d.bytes]
\* the algorithms hashlib.new knows
HashAlgos == {"sha256"}
\* hashlib.new(algo, content).hexdigest()
HexDigestOf(algo, bytes) == [form |-> "hex", algo |-> algo, bytes |-> bytes]

\* the log.warn calls of _validate_artifact, lines 322-338
ArtifactWarnings(name, d) ==
    (IF ~IsVnd(d.ct[Len(d.ct)]) THEN {"subtype should start with vnd."} ELSE {})
    \cup (IF d.ct \notin KnownMime THEN {"content-type is no known MIME type"} ELSE {})
    \cup (IF GuessType(name) = <<>> THEN {"artifact has no known MIME type"} ELSE {})
    \cup (IF GuessType(name) # d.ct THEN {"content-type does not match MIME type"} ELSE {})

\* _validate_artifact, had a content-type that differs from the guessed
\* MIME type been an error instead of a warning
ValidateArtifactStrict(tree, name, d) ==
    IF name \notin tree.files
    THEN [err |-> RuntimeError("Artifact declared, but file does not exist", name),
          warns |-> {}]
    ELSE IF ~d.hasct
    THEN [err |-> RuntimeError("Artifact missing content-type", name), warns |-> {}]
    ELSE IF Len(d.ct) < 2
    THEN [err |-> RuntimeError("Artifact content-type must be type/subtype", name),
          warns |-> {}]
    ELSE IF GuessType(name) # d.ct
    THEN [err |-> RuntimeError("Artifact content-type does not match MIME type", name),
          warns |-> {}]
    ELSE IF ~d.sig.present
    THEN [err |-> NoErr, warns |-> ArtifactWarnings(name, d)]
    ELSE IF d.sig.algo = ""
    THEN [err |-> RuntimeError("Artifact signature declared, but no algorithm", name),
          warns |-> ArtifactWarnings(name, d)]
    ELSE IF d.sig.digest.enc = "empty"
    THEN [err |-> RuntimeError("Artifact signature declared, but no digest", name),
          warns |-> ArtifactWarnings(name, d)]
    ELSE IF d.sig.algo \notin HashAlgos
    THEN [err |-> Exc("ValueError", "unsupported hash type"),
          warns |-> ArtifactWarnings(name, d)]
    ELSE IF B64Decode(d.sig.digest) # HexDigestOf(d.sig.algo, tree.bytes)
    THEN [err |-> RuntimeError("Artifact digest mismatch", name),
          warns |-> ArtifactWarnings(name, d)]
    ELSE [err |-> NoErr, warns |-> ArtifactWarnings(name, d)]

\* _validate_artifact: the exception raised and the warnings logged
ValidateArtifact(tree, name, d) ==
    IF name \notin tree.files
    THEN [err |-> RuntimeError("Artifact declared, but file does not exist", name),
          warns |-> {}]
    ELSE IF ~d.hasct
    THEN [err |-> RuntimeError("Artifact missing content-type", name), warns |-> {}]
    ELSE IF Len(d.ct) < 2
    THEN [err |-> RuntimeError("Artifact content-type must be type/subtype", name),
          warns |-> {}]
    ELSE IF ~d.sig.present
    THEN [err |-> NoErr, warns |-> ArtifactWarnings(name, d)]
    ELSE IF d.sig.algo = ""
    THEN [err |-> RuntimeError("Artifact signature declared, but no algorithm", name),
          warns |-> ArtifactWarnings(name, d)]
    ELSE IF d.sig.digest.enc = "empty"
    THEN [err |-> RuntimeError("Artifact signature declared, but no digest", name),
          warns |-> ArtifactWarnings(name, d)]
    ELSE IF d.sig.algo \notin HashAlgos
    THEN [err |-> Exc("ValueError", "unsupported hash type"),
          warns |-> ArtifactWarnings(name, d)]
    ELSE IF B64Decode(d.sig.digest) # HexDigestOf(d.sig.algo, tree.bytes)
    THEN [err |-> RuntimeError("Artifact digest mismatch", name),
          warns |-> ArtifactWarnings(name, d)]
    ELSE [err |-> NoErr, warns |-> ArtifactWarnings(name, d)]

\* the loop of _validate_artifacts, lines 301-302, from position i of order
RECURSIVE ArtifactLoop(_, _, _, _, _)
ArtifactLoop(tree, arts, order, i, w) ==
    IF i > Len(order) THEN [err |-> NoErr, warns |-> w]
    ELSE LET r == ValidateArtifact(tree, order[i], arts[order[i]]) IN
         IF r.err # NoErr THEN [err |-> r.err, warns |-> w \cup r.warns]
         ELSE ArtifactLoop(tree, arts, order, i + 1, w \cup r.warns)

\* _validate_artifacts; order is the dict's iteration order
ValidateArtifacts(tree, m, order) ==
    IF ~HasMimetypesGlob
    THEN [err |-> Exc("AttributeError", "'module' object has no attribute 'META_MIMETYPES_GLOB'"),
          warns |-> {}]
    ELSE IF DOMAIN m.artifacts = {} THEN [err |-> NoErr, warns |-> {}]
    ELSE ArtifactLoop(tree, m.artifacts, order, 1, {})

\* the orders a dict with these keys can be iterated in
Orders(keys) == {o \in UNION {[1..n -> keys] : n \in 0..Cardinality(keys)} :
                    /\ Len(o) = Cardinality(keys)
                    /\ \A k \in keys : \E i \in 1..Len(o) : o[i] = k}

\* Del, had csar['local'] been compared with the source as the caller wrote it
DelRawCompare(c, f) ==
    LET f1 == IF /\ c.local # None /\ c.local # ""
                 /\ c.source # None /\ c.source # ""
                 /\ c.local # c.source
                 /\ IsFile(f, c.local)
              THEN [f EXCEPT ![Normpath(c.local)] = NoNode] ELSE f
    IN IF c.destination # None /\ IsDir(f1, c.destination)
       THEN [f1 EXCEPT ![c.destination] = NoNode] ELSE f1

\* __del__: the filesystem after the destructor
Del(c, f) ==
    LET f1 == IF /\ c.local # None /\ c.local # ""
                 /\ c.source # None /\ c.source # ""
                 /\ c.local # Normpath(c.source)
                 /\ IsFile(f, c.local)
              THEN [f EXCEPT ![Normpath(c.local)] = NoNode] ELSE f
    IN IF c.destination # None /\ IsDir(f1, c.destination)
       THEN [f1 EXCEPT ![c.destination] = NoNode] ELSE f1

(***************************************************************************)
(* CSARReader.__init__ and __del__, stage by stage.                        *)
(***************************************************************************)
\* StageEnd, had a failing stage recorded its error and gone on to the next
StageEndContinue(stage, e, next) ==
    /\ ran' = Append(ran, stage)
    /\ pc' = next
    /\ err' = IF e = NoErr THEN err ELSE e

\* a stage ends: on to the next one, or out of __init__ with the exception
StageEnd(stage, e, next) ==
    /\ ran' = Append(ran, stage)
    /\ IF e = NoErr THEN pc' = next /\ err' = err
       ELSE pc' = "failed" /\ err' = e

RRetrieve ==
    /\ pc = "retrieve"
    /\ LET r == Retrieve(csar, fs, net) IN
       /\ csar' = r.csar
       /\ fs' = r.fs
       /\ StageEnd("retrieve", r.err, "extract")
    /\ UNCHANGED <<mode, net, warns, wcsar, wpc, werr, wreader, sigVars, csarVars, artVars, pairVars>>

RExtract ==
    /\ pc = "extract"
    /\ LET r == Extract(csar, fs) IN
       /\ csar' = r.csar
       /\ fs' = r.fs
       /\ StageEnd("extract", r.err, "metadata")
    /\ UNCHANGED <<mode, net, warns, wcsar, wpc, werr, wreader, sigVars, csarVars, artVars, pairVars>>

RValidateMetadata ==
    /\ pc = "metadata"
    /\ IF CheckRoot(csar, fs) # NoErr
       THEN csar' = csar /\ StageEnd("metadata", CheckRoot(csar, fs), "entry")
       ELSE LET r == ValidateMetadata(Tree(fs, csar)) IN
            /\ csar' = [csar EXCEPT !.metadata =
                           IF r.err = NoErr THEN r.metadata ELSE @]
            /\ StageEnd("metadata", r.err, "entry")
    /\ UNCHANGED <<mode, fs, net, warns, wcsar, wpc, werr, wreader, sigVars, csarVars, artVars, pairVars>>

RValidateEntryDefinitions ==
    /\ pc = "entry"
    /\ StageEnd("entry", ValidateEntryDefinitions(Tree(fs, csar), csar.metadata),
                "artifacts")
    /\ UNCHANGED <<mode, fs, net, csar, warns, wcsar, wpc, werr, wreader, sigVars, csarVars, artVars, pairVars>>

RValidateArtifacts ==
    /\ pc = "artifacts"
    /\ \E order \in Orders(DOMAIN csar.metadata.artifacts) :
         LET r == ValidateArtifacts(Tree(fs, csar), csar.metadata, order) IN
         /\ warns' = warns \cup r.warns
         /\ StageEnd("artifacts", r.err, "ok")
    /\ UNCHANGED <<mode, fs, net, csar, wcsar, wpc, werr, wreader, sigVars, csarVars, artVars, pairVars>>

\* the reader is dropped; a builder's reader lives as long as the builder's
\* constructor runs
RDel ==
    /\ pc \in {"ok", "failed"}
    /\ wpc # "validating"
    /\ fs' = Del(csar, fs)
    /\ pc' = "destroyed"
    /\ UNCHANGED <<mode, net, csar, err, warns, ran, wcsar, wpc, werr, wreader, sigVars, csarVars, artVars, pairVars>>

(***************************************************************************)
(* writer.py: CSARWriter                                                   *)
(***************************************************************************)
\* the metadata dict of __init__, lines 61-66
WriterMetadata(entry, author) ==
    [isNone |-> FALSE, mfv |-> S("1.0"), av |-> S("1.1"), author |-> S(author),
     entry |-> S(entry), tv |-> Absent, ta |-> Absent, tn |-> Absent,
     artifacts |-> NoArtifacts]

\* CSARWriter.__init__, lines 51-67
NewWriter(source, entry, author, output) ==
    [source |-> source, entry |-> entry, local |-> None, destination |-> output,
     metadata |-> WriterMetadata(entry, author)]
NoWriter == NewWriter(None, "", "", None)

\* self.csar['source'].endswith('.zip')
EndsWithZip(p) == p \in {SrcZip, SrcZipDot, OutZip, TmpFileW}

\* _validate_pre
ValidatePre(w, f) ==
    IF ~Exists(f, w.source)
    THEN RuntimeError("CSAR source path does not exist", "") ELSE NoErr

\* _zip: the bytes of the temporary file
ZipData(w, f) ==
    IF IsFile(f, w.source) /\ EndsWithZip(w.source) THEN Node(f, w.source).data
    ELSE IF IsDir(f, w.source) THEN [Node(f, w.source).data EXCEPT !.zip = "valid"]
    ELSE Blank

\* yaml.dump(self.metadata, default_flow_style=False)
YamlDumpMeta(m) ==
    MetaText("mapping", YamlDumpScalar(m.mfv), YamlDumpScalar(m.av),
             YamlDumpScalar(m.author), YamlDumpScalar(m.entry))

\* create_metadata: ZipFile(local, 'a').writestr(META_FILE, ...).  Mode 'a'
\* on bytes that are no ZIP appends a new archive; a second entry of the
\* same name is the one extraction leaves on disk.
CreateMetadata(data, m) ==
    IF data.zip \in {"valid", "badmember"}
    THEN [data EXCEPT !.meta = YamlDumpMeta(m), !.artifacts = NoArtifacts]
    ELSE [Blank EXCEPT !.zip = "valid", !.meta = YamlDumpMeta(m)]

\* Finish, had line 79 caught the reader's exception and raised its own
FinishWrapped(rpc, rerr) ==
    IF rpc = "ok" THEN [wpc |-> "done", werr |-> NoErr, wreader |-> TRUE]
    ELSE [wpc |-> "failed", werr |-> RuntimeError("CSAR validation failed", ""),
          wreader |-> FALSE]

\* line 79, self.reader = CSARReader(self.archive): the constructor ends as
\* the reader's constructor ended
Finish(rpc, rerr) ==
    IF rpc = "ok" THEN [wpc |-> "done", werr |-> NoErr, wreader |-> TRUE]
    ELSE [wpc |-> "failed", werr |-> rerr, wreader |-> FALSE]

WValidatePre ==
    /\ wpc = "pre"
    /\ IF ValidatePre(wcsar, fs) = NoErr THEN wpc' = "zip" /\ werr' = werr
       ELSE wpc' = "failed" /\ werr' = ValidatePre(wcsar, fs)
    /\ UNCHANGED <<mode, fs, net, csar, pc, err, warns, ran, wcsar, wreader, sigVars, csarVars, artVars, pairVars>>

WZip ==
    /\ wpc = "zip"
    /\ fs' = [fs EXCEPT ![TmpFileW] = File(ZipData(wcsar, fs))]
    /\ wcsar' = [wcsar EXCEPT !.local = TmpFileW]
    /\ wpc' = "metadata"
    /\ UNCHANGED <<mode, net, csar, pc, err, warns, ran, werr, wreader, sigVars, csarVars, artVars, pairVars>>

WCreateMetadata ==
    /\ wpc = "metadata"
    /\ fs' = [fs EXCEPT ![wcsar.local] =
                 File(CreateMetadata(Node(fs, wcsar.local).data, wcsar.metadata))]
    /\ wpc' = "copy"
    /\ UNCHANGED <<mode, net, csar, pc, err, warns, ran, wcsar, werr, wreader, sigVars, csarVars, artVars, pairVars>>

\* lines 77-79: copy to the output path and start CSARReader(self.archive)
WCopy ==
    /\ wpc = "copy"
    /\ fs' = [fs EXCEPT ![wcsar.destination] = Node(fs, wcsar.local)]
    /\ csar' = NewReader(wcsar.destination, FALSE)
    /\ pc' = "retrieve"
    /\ wpc' = "validating"
    /\ UNCHANGED <<mode, net, err, warns, ran, wcsar, werr, wreader, sigVars, csarVars, artVars, pairVars>>

\* line 79: CSARReader(...) returns or raises
WFinish ==
    /\ wpc = "validating"
    /\ pc \in {"ok", "failed"}
    /\ wreader' = Finish(pc, err).wreader
    /\ wpc' = Finish(pc, err).wpc
    /\ werr' = Finish(pc, err).werr
    /\ UNCHANGED <<mode, fs, net, csar, pc, err, warns, ran, wcsar, sigVars, csarVars, artVars, pairVars>>

(***************************************************************************)
(* writer.py: create_signature and verify_signature.                       *)
(* HMAC-SHA384 is modelled without collisions: the digest of (key, bytes)  *)
(* determines both.  A str is its body and whether blanks surround it.     *)
(***************************************************************************)
SigPath == "build.sig"
PyNone == [t |-> "none", body |-> <<>>, pad |-> FALSE]
PyInt == [t |-> "int", body |-> <<>>, pad |-> FALSE]
PyStr(body, pad) == [t |-> "str", body |-> body, pad |-> pad]
NoSigFile == [exists |-> FALSE, text |-> PyNone]

\* HmacHex, had the key been left out of the hash
HmacHexNoKey(key, data) == PyStr(<<0, data>>, FALSE)

\* hmac.new(keydata, digestmod=hashlib.sha384) fed the whole file, hexdigest()
HmacHex(key, data) == PyStr(<<key, data>>, FALSE)
\* str.strip()
Strip(d) == [d EXCEPT !.pad = FALSE]
\* bool(x) of a str or None argument
NonEmpty(d) == d.t = "int" \/ (d.t = "str" /\ (d.body # <<>> \/ d.pad))
\* hmac.compare_digest(a, b)
CompareDigest(a, b) == a = b

\* create_signature: the exception, the digest returned, the signature file
CreateSignature(w, f, sf, key, outfile) ==
    IF w.destination = None \/ w.destination = ""
    THEN [exc |-> RuntimeError("Cannot calculate signature before CSAR package exists", ""),
          digest |-> PyNone, sigfile |-> sf]
    ELSE IF ~IsFile(f, w.destination)
    THEN [exc |-> Exc("IOError", "No such file or directory"),
          digest |-> PyNone, sigfile |-> sf]
    ELSE LET d == HmacHex(key, Node(f, w.destination).data) IN
         [exc |-> NoErr, digest |-> d,
          sigfile |-> IF outfile # None THEN [exists |-> TRUE, text |-> d] ELSE sf]

\* verify_signature, had the check of line 221 come after the signature
\* is computed
VerifySignatureLateCheck(w, f, sf, key, digest, sigpath) ==
    LET real == CreateSignature(w, f, sf, key, None) IN
    IF ~NonEmpty(digest) /\ sigpath = None
    THEN [exc |-> RuntimeError("digest or sigfile must be set", ""),
          ret |-> FALSE, signed |-> TRUE]
    ELSE IF ~NonEmpty(digest) /\ ~sf.exists
    THEN [exc |-> Exc("IOError", "No such file or directory"),
          ret |-> FALSE, signed |-> TRUE]
    ELSE LET d == IF NonEmpty(digest) THEN digest ELSE sf.text IN
         IF d.t # "str"
         THEN [exc |-> RuntimeError("Existing signature must be a string type", ""),
               ret |-> FALSE, signed |-> TRUE]
         ELSE IF real.exc # NoErr
         THEN [exc |-> real.exc, ret |-> FALSE, signed |-> TRUE]
         ELSE [exc |-> NoErr, ret |-> CompareDigest(Strip(d), real.digest),
               signed |-> TRUE]

\* verify_signature: the exception, the value returned, and whether
\* create_signature was called
VerifySignature(w, f, sf, key, digest, sigpath) ==
    IF ~NonEmpty(digest) /\ sigpath = None
    THEN [exc |-> RuntimeError("digest or sigfile must be set", ""),
          ret |-> FALSE, signed |-> FALSE]
    ELSE IF ~NonEmpty(digest) /\ ~sf.exists
    THEN [exc |-> Exc("IOError", "No such file or directory"),
          ret |-> FALSE, signed |-> FALSE]
    ELSE LET d == IF NonEmpty(digest) THEN digest ELSE sf.text IN
         IF d.t # "str"
         THEN [exc |-> RuntimeError("Existing signature must be a string type", ""),
               ret |-> FALSE, signed |-> FALSE]
         ELSE LET real == CreateSignature(w, f, sf, key, None) IN
              IF real.exc # NoErr
              THEN [exc |-> real.exc, ret |-> FALSE, signed |-> TRUE]
              ELSE [exc |-> NoErr, ret |-> CompareDigest(Strip(d), real.digest),
                    signed |-> TRUE]

NoCall == [op |-> "none", key |-> 0, digest |-> PyNone, sigpath |-> None,
           data |-> Blank, exc |-> NoErr, ret |-> FALSE, signed |-> FALSE]
NoneMade == [key |-> 0, data |-> Blank, digest |-> PyNone]

(***************************************************************************)
(* csar.py: CSAR                                                           *)
(***************************************************************************)
HostFiles == {"/etc/hosts"}  \* files of the host outside every extracted root
BaseProfile == Ref("base", "tosca-simple-profile-1.0/tosca-simple-profile-1.0.yaml")
\* an artifact or operation entry of a node template: a bare string, a
\* mapping (with or without its "file" / "implementation" field) or another type
Entry(form, has, ref) == [form |-> form, has |-> has, ref |-> ref]

\* CSAR.__init__
NewCsar(path, a_file) ==
    [path |-> path, a_file |-> a_file, is_validated |-> FALSE,
     error_caught |-> FALSE, csar |-> None, temp_dir |-> None,
     zfile |-> [open |-> FALSE, data |-> Blank], metadata |-> NoneMeta]
NoCres == [op |-> "none", exc |-> NoErr, ret |-> FALSE]

\* UrlUtils.validate_url (nfvo_packager/utils.py)
ValidateUrl(x) == x \in {SrcUrl, "http://host/up", "http://host/down"}
\* UrlUtils.url_accessible (nfvo_packager/utils.py)
UrlAccessible(x) == x \in {SrcUrl, "http://host/up"}

\* zfile.namelist()
Namelist(data) ==
    data.files \cup (IF data.meta.kind # "nofile" THEN {META_FILE} ELSE {})
\* value in zfile.namelist()
InNamelist(data, val) == val.t = "str" /\ val.v \in Namelist(data)

\* os.path.dirname of a template path; the templates of the model are at the root
Dirname(tplfile) == ""

\* os.path.isfile(os.path.join(self.temp_dir, os.path.dirname(tpl_file), ref)):
\* os.path.join drops what precedes an absolute path, and ".." segments are
\* followed out of the extracted root
ResolvesToFile(tree, tplfile, ref) ==
    CASE ref.kind = "rel" -> ref.name \in tree.files
      [] ref.kind = "abs" -> ref.name \in HostFiles
      [] ref.kind = "up" -> ref.name \in HostFiles
      [] OTHER -> FALSE

\* _validate_external_reference; line 243 calls _, a name csar.py never binds
ValidateExternalReference(tree, tplfile, ref, raise_exc) ==
    IF ValidateUrl(ref.name)
    THEN Exc("NameError", "global name '_' is not defined")
    ELSE IF ResolvesToFile(tree, tplfile, ref) THEN NoErr
    ELSE IF raise_exc THEN RuntimeError("The resource does not exist", ref.name)
    ELSE NoErr

\* the first exception of a loop whose i-th iteration raises errs[i]
FirstErr(errs) ==
    LET bad == {i \in DOMAIN errs : errs[i] # NoErr} IN
    IF bad = {} THEN NoErr
    ELSE errs[CHOOSE i \in bad : \A j \in bad : i <= j]

\* ImportsLoader(imports, path) (nfvo_packager/imports.py): every import is
\* resolved like a mandatory reference and must exist
ImportsLoader(tree, tplfile, imports) ==
    FirstErr([i \in DOMAIN imports |->
                 IF ValidateUrl(imports[i].name)
                 THEN IF UrlAccessible(imports[i].name) THEN NoErr
                      ELSE RuntimeError("import cannot be accessed", imports[i].name)
                 ELSE IF ResolvesToFile(tree, tplfile, imports[i]) THEN NoErr
                 ELSE RuntimeError("import does not exist", imports[i].name)])

\* imports.remove(x): the list without the first x
RemoveFirst(seq, x) ==
    LET i == CHOOSE k \in 1..Len(seq) : seq[k] = x /\ \A j \in 1..(k - 1) : seq[j] # x
    IN [k \in 1..(Len(seq) - 1) |-> IF k < i THEN seq[k] ELSE seq[k + 1]]

\* _validate_external_references, lines 179-186
CheckImports(tree, tplfile, tpl) ==
    IF ~tpl.hasImports THEN NoErr
    ELSE IF \A k \in 1..Len(tpl.imports) : tpl.imports[k] # BaseProfile
    THEN Exc("ValueError", "list.remove(x): x not in list")
    ELSE LET rest == RemoveFirst(tpl.imports, BaseProfile) IN
         IF rest = <<>> THEN NoErr ELSE ImportsLoader(tree, tplfile, rest)

\* lines 196-212
CheckArtifactEntry(tree, tplfile, e) ==
    CASE e.form = "str" -> ValidateExternalReference(tree, tplfile, e.ref, TRUE)
      [] e.form = "dict" ->
            IF e.has THEN ValidateExternalReference(tree, tplfile, e.ref, TRUE)
            ELSE NoErr
      [] OTHER -> RuntimeError("Unexpected artifact definition", "")

\* lines 213-228
CheckOperationEntry(tree, tplfile, e) ==
    CASE e.form = "str" -> ValidateExternalReference(tree, tplfile, e.ref, FALSE)
      [] e.form = "dict" ->
            IF e.has THEN ValidateExternalReference(tree, tplfile, e.ref, TRUE)
            ELSE NoErr
      [] OTHER -> NoErr

\* get_main_template, given the metadata: the entry, or None
GetMainTemplate(data, m) == IF InNamelist(data, m.entry) THEN m.entry ELSE Null

\* decompress(): temp_dir is named and the archive extracted below it
Decompress(o, f, data) ==
    LET o1 == [o EXCEPT !.temp_dir = TmpDirC] IN
    IF data.zip = "badmember"
    THEN [obj |-> o1, fs |-> [f EXCEPT ![TmpDirC] = Dir(Partial)],
          exc |-> Exc("BadZipfile", "Bad CRC-32")]
    ELSE [obj |-> o1, fs |-> [f EXCEPT ![TmpDirC] = Dir(ExtractAll(data))],
          exc |-> NoErr]

\* _validate_external_references, lines 174-228: the exception raised by the
\* checks that follow decompress(); data is the open archive, tree what is
\* on disk below temp_dir
ValidateExternalReferences(data, tree, m) ==
    LET main == GetMainTemplate(data, m) IN
    IF ~Truthy(main) THEN NoErr
    ELSE IF data.tpl.kind = "invalid"
    THEN RuntimeError("YAMLError", main.v)
    ELSE IF data.tpl.kind # "mapping"
    THEN RuntimeError("does not contain valid TOSCA YAML content", main.v)
    ELSE FirstErr(
            <<CheckImports(tree, main.v, data.tpl)>>
            \o [i \in DOMAIN data.tpl.artifacts |->
                   CheckArtifactEntry(tree, main.v, data.tpl.artifacts[i])]
            \o [i \in DOMAIN data.tpl.operations |->
                   CheckOperationEntry(tree, main.v, data.tpl.operations[i])])

\* Finally, had the tree been removed only when the checks raised nothing
FinallyOnSuccess(o, f, exc) ==
    IF o.temp_dir = None \/ exc # NoErr THEN [fs |-> f, exc |-> exc]
    ELSE IF ~IsDir(f, o.temp_dir)
    THEN [fs |-> f, exc |-> Exc("OSError", "No such file or directory")]
    ELSE [fs |-> [f EXCEPT ![o.temp_dir] = NoNode], exc |-> exc]

\* the finally clause, lines 229-231: shutil.rmtree(self.temp_dir), whose
\* own exception replaces the one in flight
Finally(o, f, exc) ==
    IF o.temp_dir = None THEN [fs |-> f, exc |-> exc]
    ELSE IF ~IsDir(f, o.temp_dir)
    THEN [fs |-> f, exc |-> Exc("OSError", "No such file or directory")]
    ELSE [fs |-> [f EXCEPT ![o.temp_dir] = NoNode], exc |-> exc]

\* validate(), lines 47-57: the archive is located
CsarLocate(o, f, n) ==
    IF o.a_file
    THEN IF ~IsFile(f, o.path)
         THEN [exc |-> RuntimeError("does not exist", o.path), csar |-> None,
               data |-> Blank]
         ELSE [exc |-> NoErr, csar |-> o.path, data |-> Node(f, o.path).data]
    ELSE IF ~ValidateUrl(o.path)
         THEN [exc |-> RuntimeError("does not exist", o.path), csar |-> None,
               data |-> Blank]
         ELSE IF n.outcome # "ok"
         THEN [exc |-> Exc("ConnectionError", "connection refused"), csar |-> None,
               data |-> Blank]
         ELSE [exc |-> NoErr, csar |-> "BytesIO", data |-> n.data]

\* validate(), lines 45-98: the object and the exception raised by the
\* checks that precede _validate_external_references
CsarValidate(o, f, n) ==
    LET o1 == [o EXCEPT !.is_validated = TRUE]
        loc == CsarLocate(o1, f, n)
        o2 == [o1 EXCEPT !.csar = IF loc.exc = NoErr THEN loc.csar ELSE @]
        o3 == [o2 EXCEPT !.zfile = [open |-> TRUE, data |-> loc.data]]
        m == LoadMetaFile(loc.data)
        o4 == [o3 EXCEPT !.metadata = m]
    IN
    IF loc.exc # NoErr THEN [obj |-> o2, exc |-> loc.exc]
    ELSE IF loc.data.zip \notin {"valid", "badmember"}
    THEN [obj |-> o2, exc |-> RuntimeError("is not a valid zip file", o.path)]
    ELSE IF loc.data.meta.kind = "nofile"
    THEN [obj |-> o3, exc |-> RuntimeError("does not contain TOSCA.meta", o.path)]
    ELSE IF loc.data.meta.kind # "mapping"
    THEN [obj |-> o3, exc |-> RuntimeError("TOSCA.meta does not contain valid YAML", o.path)]
    ELSE IF ~Has(m.entry)
    THEN [obj |-> o4, exc |-> RuntimeError("missing the required metadata",
                                           META_ENTRY_DEFINITIONS_KEY)]
    ELSE IF Truthy(m.entry) /\ ~InNamelist(loc.data, m.entry)
    THEN [obj |-> o4, exc |-> RuntimeError("Entry-Definitions file does not exist", o.path)]
    ELSE [obj |-> o4, exc |-> NoErr]

(***************************************************************************)
(* The inputs.                                                             *)
(***************************************************************************)
MfvToks == {NoTok, Quoted("1.0"), Plain("1.0"), Plain("1.1")}
AvToks == {NoTok, Quoted("1.1"), Plain("1.10"), Quoted("1.0")}
AuthorToks == {NoTok, Quoted(""), Plain("Ann")}
EntryToks == {NoTok, Plain(""), Plain("service.yaml")}
MetaTexts ==
    {MetaText("mapping", a, b, c, d) :
        a \in MfvToks, b \in AvToks, c \in AuthorToks, d \in EntryToks}
    \cup {MetaText(k, NoTok, NoTok, NoTok, NoTok) : k \in {"empty", "list", "invalid"}}
InlineTexts ==
    {InlineText("mapping", a, b, c) :
        a \in {NoTok, Plain("1.1"), Quoted("1.0")},
        b \in {NoTok, Plain("Ann")}, c \in {Plain(""), Plain("svc")}}
    \cup {InlineText(k, NoTok, NoTok, NoTok) : k \in {"empty", "nosection"}}

GoodDesc == Desc(TRUE, <<"application", "vnd.tosca.artifact">>, NoSig)
ArtifactSets ==
    {NoArtifacts,
     [n \in {"art.bin"} |-> GoodDesc],
     [n \in ArtNames |-> IF n = "art.bin" THEN Desc(FALSE, <<>>, NoSig) ELSE GoodDesc]}

Archives ==
    {[zip |-> "valid", files |-> fl, meta |-> m, inline |-> NoInline, artifacts |-> a,
      tpl |-> NoTpl, bytes |-> "orig"] :
        fl \in SUBSET FileNames, m \in MetaTexts, a \in ArtifactSets}
    \cup
    {[zip |-> "valid", files |-> fl, meta |-> NoMetaFile, inline |-> i, artifacts |-> a,
      tpl |-> NoTpl, bytes |-> "orig"] :
        fl \in SUBSET FileNames, i \in InlineTexts, a \in ArtifactSets}

GoodArchive ==
    [zip |-> "valid", files |-> {"service.yaml"},
     meta |-> MetaText("mapping", Quoted("1.0"), Quoted("1.1"), Plain("Ann"),
                       Plain("service.yaml")),
     inline |-> NoInline, artifacts |-> NoArtifacts, tpl |-> NoTpl,
     bytes |-> "orig"]
\* archives that differ in what retrieval and extraction do
FewArchives == {GoodArchive, [GoodArchive EXCEPT !.zip = "badmember"],
                [Blank EXCEPT !.zip = "notzip"],
                [GoodArchive EXCEPT !.files = @ \cup {Traversal}]}

EmptyFs == [p \in Paths |-> NoNode]
NetOutcomes == {"ok", "invalid_url", "refused", "interrupted"}
NoNet == [outcome |-> "none", data |-> Blank]

(***************************************************************************)
(* The signature calls.                                                    *)
(***************************************************************************)
NKeys == 2
Keys == 1..NKeys
SignArchives == {GoodArchive,
                 [GoodArchive EXCEPT !.files = {"service.yaml", "art.bin"}],
                 [GoodArchive EXCEPT !.meta.author = Plain("Bob")]}
\* the digest arguments a caller passes: none, a non-string, an empty or
\* blank string, or the signature made last, as returned or with blanks around
DigestArgs(m) ==
    {PyNone, PyInt, PyStr(<<>>, FALSE), PyStr(<<>>, TRUE)}
    \cup (IF m.digest.t = "str" THEN {m.digest, [m.digest EXCEPT !.pad = TRUE]} ELSE {})

SCreateSignature ==
    /\ mode = "sign"
    /\ \E key \in Keys, outfile \in {None, SigPath} :
         LET r == CreateSignature(wcsar, fs, sigfile, key, outfile) IN
         /\ sigfile' = r.sigfile
         /\ made' = IF r.exc = NoErr
                    THEN [key |-> key, data |-> Node(fs, wcsar.destination).data,
                          digest |-> r.digest]
                    ELSE made
         /\ last' = [NoCall EXCEPT !.op = "sign", !.key = key, !.sigpath = outfile,
                        !.data = Node(fs, wcsar.destination).data,
                        !.exc = r.exc, !.digest = r.digest]
    /\ UNCHANGED <<mode, fs, net, readerVars, writerVars, csarVars, artVars, pairVars>>

SVerifySignature ==
    /\ mode = "sign"
    /\ \E key \in Keys, digest \in DigestArgs(made), sigpath \in {None, SigPath} :
         LET r == VerifySignature(wcsar, fs, sigfile, key, digest, sigpath) IN
         last' = [op |-> "verify", key |-> key, digest |-> digest,
                  sigpath |-> sigpath, data |-> Node(fs, wcsar.destination).data,
                  exc |-> r.exc, ret |-> r.ret, signed |-> r.signed]
    /\ UNCHANGED <<mode, fs, net, readerVars, writerVars, sigfile, made, csarVars, artVars, pairVars>>

\* the archive at the output path is replaced by other bytes
SAlterArchive ==
    /\ mode = "sign"
    /\ \E a \in SignArchives :
         /\ a # Node(fs, wcsar.destination).data
         /\ fs' = [fs EXCEPT ![wcsar.destination] = File(a)]
    /\ UNCHANGED <<mode, net, readerVars, writerVars, sigVars, csarVars, artVars, pairVars>>

(***************************************************************************)
(* _validate_artifact called on a reader whose tree is extracted.          *)
(***************************************************************************)
\* the content-type values of a descriptor, split at "/"
ContentTypes == {<<"application", "octet-stream">>, <<"application", "vnd.tosca.artifact">>,
                 <<"text", "plain">>, <<"application", "x-unknown">>}
\* the signature blocks of a descriptor, for a file signed when its content
\* was "orig"
Signatures ==
    {NoSig,
     Sig("sha256", Digest("b64", "raw", "sha256", "orig")),
     Sig("sha256", Digest("b64", "hex", "sha256", "orig")),
     Sig("sha256", Digest("plain", "hex", "sha256", "orig")),
     Sig("sha256", NoDigest),
     Sig("", Digest("b64", "raw", "sha256", "orig")),
     Sig("bogus", Digest("b64", "raw", "bogus", "orig"))}
Descriptors ==
    {Desc(TRUE, ct, sg) : ct \in ContentTypes, sg \in Signatures}
    \cup {Desc(FALSE, <<>>, NoSig), Desc(TRUE, <<"plain">>, NoSig)}
ArtifactTrees ==
    {[GoodArchive EXCEPT !.files = {"service.yaml"} \cup fl,
                         !.artifacts = [n \in {"art.bin"} |-> d]] :
        fl \in {{}, {"art.bin"}}, d \in Descriptors}
NoArtifactCall == [op |-> "none", name |-> "", desc |-> Desc(FALSE, <<>>, NoSig),
                   tree |-> Blank, err |-> NoErr, warns |-> {}]

\* self._validate_artifact(name, artifact)
AValidateArtifact ==
    /\ mode = "artifact"
    /\ \E name \in DOMAIN Tree(fs, csar).artifacts :
         LET d == Tree(fs, csar).artifacts[name]
             r == ValidateArtifact(Tree(fs, csar), name, d) IN
         /\ acall' = [op |-> "validate", name |-> name, desc |-> d,
                      tree |-> Tree(fs, csar), err |-> r.err, warns |-> r.warns]
         /\ warns' = warns \cup r.warns
    /\ UNCHANGED <<mode, fs, net, csar, pc, err, ran, writerVars, sigVars, csarVars, pairVars>>

\* one byte of the extracted artifact file changes
AAlterArtifact ==
    /\ mode = "artifact"
    /\ "art.bin" \in Tree(fs, csar).files
    /\ Tree(fs, csar).bytes = "orig"
    /\ fs' = [fs EXCEPT ![csar.destination].data.bytes = "flip"]
    /\ UNCHANGED <<mode, net, readerVars, writerVars, sigVars, csarVars, artVars, pairVars>>

(***************************************************************************)
(* Two instances in one process: a reader or a builder, and a second       *)
(* reader, their steps interleaved.                                        *)
(***************************************************************************)
\* Mk2, had mkstemp() and mkdtemp() handed both readers the same names
Mk2Same(p) == p

\* the names mkstemp() and mkdtemp() return to the second reader, in place
\* of those they return to the first: a name in use is never handed out again
Mk2(p) ==
    CASE p = TmpFileR -> TmpFileR2
      [] p = TmpDirR -> TmpDirR2
      [] p = TmpFileR2 -> TmpFileR
      [] p = TmpDirR2 -> TmpDirR
      [] OTHER -> p
\* the filesystem and the reader's fields as the second reader's code sees them
SwapFs(f) == [p \in DOMAIN f |-> f[Mk2(p)]]
SwapCsar(c) == [c EXCEPT !.local = Mk2(@), !.destination = Mk2(@)]

\* CSARReader.__init__, lines 56-58, run to its end with no other instance:
\* the fields, the filesystem, the exception and the stages run
AloneReader(c, f, n) ==
    LET r1 == Retrieve(c, f, n)
        r2 == Extract(r1.csar, r1.fs)
        root == CheckRoot(r2.csar, r2.fs)
        r3 == ValidateMetadata(Tree(r2.fs, r2.csar))
        c3 == [r2.csar EXCEPT !.metadata = IF r3.err = NoErr THEN r3.metadata ELSE @]
        e4 == ValidateEntryDefinitions(Tree(r2.fs, c3), c3.metadata)
        r5 == ValidateArtifacts(Tree(r2.fs, c3), c3.metadata,
                                CHOOSE o \in Orders(DOMAIN c3.metadata.artifacts) : TRUE)
    IN
    IF r1.err # NoErr
    THEN [csar |-> r1.csar, fs |-> r1.fs, err |-> r1.err, ran |-> <<"retrieve">>]
    ELSE IF r2.err # NoErr
    THEN [csar |-> r2.csar, fs |-> r2.fs, err |-> r2.err,
          ran |-> <<"retrieve", "extract">>]
    ELSE IF root # NoErr
    THEN [csar |-> r2.csar, fs |-> r2.fs, err |-> root,
          ran |-> <<"retrieve", "extract", "metadata">>]
    ELSE IF r3.err # NoErr
    THEN [csar |-> c3, fs |-> r2.fs, err |-> r3.err,
          ran |-> <<"retrieve", "extract", "metadata">>]
    ELSE IF e4 # NoErr
    THEN [csar |-> c3, fs |-> r2.fs, err |-> e4,
          ran |-> <<"retrieve", "extract", "metadata", "entry">>]
    ELSE [csar |-> c3, fs |-> r2.fs, err |-> r5.err,
          ran |-> <<"retrieve", "extract", "metadata", "entry", "artifacts">>]

\* CSARWriter.__init__, lines 69-79, run to its end with no other instance
AloneBuilder(w, f) ==
    LET f1 == [f EXCEPT ![TmpFileW] = File(ZipData(w, f))]
        f2 == [f1 EXCEPT ![TmpFileW] =
                  File(CreateMetadata(Node(f1, TmpFileW).data, w.metadata))]
        f3 == [f2 EXCEPT ![w.destination] = Node(f2, TmpFileW)]
        a == AloneReader(NewReader(w.destination, FALSE), f3, NoNet)
    IN
    IF ValidatePre(w, f) # NoErr
    THEN [fs |-> f, werr |-> ValidatePre(w, f), reader |-> a, started |-> FALSE]
    ELSE [fs |-> a.fs,
          werr |-> Finish(IF a.err = NoErr THEN "ok" ELSE "failed", a.err).werr,
          reader |-> a, started |-> TRUE]

StageEnd2(stage, e, next) ==
    /\ ran2' = Append(ran2, stage)
    /\ IF e = NoErr THEN pc2' = next /\ err2' = err2
       ELSE pc2' = "failed" /\ err2' = e

R2Retrieve ==
    /\ pc2 = "retrieve"
    /\ LET r == Retrieve(SwapCsar(csar2), SwapFs(fs), net2) IN
       /\ csar2' = SwapCsar(r.csar)
       /\ fs' = SwapFs(r.fs)
       /\ StageEnd2("retrieve", r.err, "extract")
    /\ UNCHANGED <<mode, net, readerVars, writerVars, sigVars, csarVars, artVars, net2, fs0>>

R2Extract ==
    /\ pc2 = "extract"
    /\ LET r == Extract(SwapCsar(csar2), SwapFs(fs)) IN
       /\ csar2' = SwapCsar(r.csar)
       /\ fs' = SwapFs(r.fs)
       /\ StageEnd2("extract", r.err, "metadata")
    /\ UNCHANGED <<mode, net, readerVars, writerVars, sigVars, csarVars, artVars, net2, fs0>>

R2ValidateMetadata ==
    /\ pc2 = "metadata"
    /\ IF CheckRoot(csar2, fs) # NoErr
       THEN csar2' = csar2 /\ StageEnd2("metadata", CheckRoot(csar2, fs), "entry")
       ELSE LET r == ValidateMetadata(Tree(fs, csar2)) IN
            /\ csar2' = [csar2 EXCEPT !.metadata =
                             IF r.err = NoErr THEN r.metadata ELSE @]
            /\ StageEnd2("metadata", r.err, "entry")
    /\ UNCHANGED <<mode, fs, net, readerVars, writerVars, sigVars, csarVars, artVars, net2, fs0>>

R2ValidateEntryDefinitions ==
    /\ pc2 = "entry"
    /\ StageEnd2("entry", ValidateEntryDefinitions(Tree(fs, csar2), csar2.metadata),
                 "artifacts")
    /\ UNCHANGED <<mode, fs, net, readerVars, writerVars, sigVars, csarVars, artVars,
                   csar2, net2, fs0>>

R2ValidateArtifacts ==
    /\ pc2 = "artifacts"
    /\ \E order \in Orders(DOMAIN csar2.metadata.artifacts) :
         LET r == ValidateArtifacts(Tree(fs, csar2), csar2.metadata, order) IN
         StageEnd2("artifacts", r.err, "ok")
    /\ UNCHANGED <<mode, fs, net, readerVars, writerVars, sigVars, csarVars, artVars,
                   csar2, net2, fs0>>

R2Del ==
    /\ pc2 \in {"ok", "failed"}
    /\ fs' = Del(csar2, fs)
    /\ pc2' = "destroyed"
    /\ UNCHANGED <<mode, net, readerVars, writerVars, sigVars, csarVars, artVars,
                   csar2, err2, ran2, net2, fs0>>

SecondIdle ==
    /\ csar2 = NewReader(None, FALSE)
    /\ pc2 = "idle"
    /\ net2 = NoNet
    /\ fs0 = EmptyFs

ReaderIdle ==
    /\ csar = NewReader(None, FALSE)
    /\ pc = "idle"
WriterIdle ==
    /\ wcsar = NoWriter
    /\ wpc = "idle"
CsarIdle == cobj = NewCsar(None, TRUE)

\* CSARReader(source, is_external)
InitRead ==
    /\ mode = "read"
    /\ \/ /\ fs \in {EmptyFs} \cup {[EmptyFs EXCEPT ![SrcZip] = File(a)] : a \in Archives}
          /\ net = NoNet
          /\ csar = NewReader(SrcZip, FALSE)
       \/ /\ fs \in {[EmptyFs EXCEPT ![SrcZip] = File(a)] : a \in FewArchives}
          /\ net = NoNet
          /\ csar = NewReader(SrcZipDot, FALSE)
       \/ /\ fs = EmptyFs
          /\ net \in {[outcome |-> o, data |-> a] : o \in NetOutcomes, a \in FewArchives}
          /\ csar = NewReader(SrcUrl, TRUE)
    /\ pc = "retrieve"
    /\ WriterIdle
    /\ CsarIdle

Authors == {"Ann", "1.1", ""}
Entries == {"service.yaml", "types.yml"}
SourceTrees == {[Blank EXCEPT !.files = fl] : fl \in SUBSET FileNames}
                 \cup {[zip |-> "none", files |-> a.files, meta |-> a.meta,
                        inline |-> a.inline, artifacts |-> a.artifacts,
                        tpl |-> a.tpl, bytes |-> a.bytes] : a \in FewArchives}

\* CSARWriter(source, entry, author, output)
InitBuild ==
    /\ mode = "build"
    /\ net = NoNet
    /\ \E e \in Entries, a \in Authors :
         \/ /\ fs \in {[EmptyFs EXCEPT ![SrcDir] = Dir(t)] : t \in SourceTrees}
            /\ wcsar = NewWriter(SrcDir, e, a, OutZip)
         \/ /\ fs \in {EmptyFs} \cup {[EmptyFs EXCEPT ![SrcZip] = File(z)] : z \in FewArchives}
            /\ wcsar = NewWriter(SrcZip, e, a, OutZip)
         \/ /\ fs = [EmptyFs EXCEPT ![SrcOther] = File([Blank EXCEPT !.zip = "notzip"])]
            /\ wcsar = NewWriter(SrcOther, e, a, OutZip)
    /\ wpc = "pre"
    /\ ReaderIdle
    /\ CsarIdle

(***************************************************************************)
(* The calls on a CSAR object.                                             *)
(***************************************************************************)
CsarEntryToks == {NoTok, Plain(""), Quoted(""), Plain("service.yaml"), Plain("types.yml")}
CsarMetaTexts ==
    {MetaText("mapping", Quoted("1.0"), Quoted("1.1"), Plain("Ann"), e) :
        e \in CsarEntryToks}
    \cup {NoMetaFile, MetaText("empty", NoTok, NoTok, NoTok, NoTok),
          MetaText("invalid", NoTok, NoTok, NoTok, NoTok)}
RelOk == Ref("rel", "art.bin")
RelGone == Ref("rel", "gone.bin")
AbsRef == Ref("abs", "/etc/hosts")
UpRef == Ref("up", "/etc/hosts")
UrlDown == Ref("url", "http://host/down")
NoRef == Ref("none", "")
ImportOpts == {<<>>, <<BaseProfile>>, <<BaseProfile, RelOk>>,
               <<BaseProfile, RelGone>>, <<RelOk>>}
ArtifactOpts == {<<>>, <<Entry("str", FALSE, RelOk)>>, <<Entry("str", FALSE, RelGone)>>,
                 <<Entry("dict", TRUE, AbsRef)>>, <<Entry("dict", FALSE, NoRef)>>,
                 <<Entry("other", FALSE, NoRef)>>, <<Entry("str", FALSE, UpRef)>>}
OperationOpts == {<<>>, <<Entry("str", FALSE, RelGone)>>, <<Entry("str", FALSE, UrlDown)>>,
                  <<Entry("dict", TRUE, RelGone)>>, <<Entry("dict", TRUE, RelOk)>>,
                  <<Entry("dict", TRUE, UrlDown)>>}
Tpls ==
    {[kind |-> "mapping", hasImports |-> FALSE, imports |-> <<>>,
      artifacts |-> a, operations |-> o] : a \in ArtifactOpts, o \in OperationOpts}
    \cup {[kind |-> "mapping", hasImports |-> TRUE, imports |-> i,
           artifacts |-> a, operations |-> o] :
              i \in ImportOpts, a \in ArtifactOpts, o \in OperationOpts}
    \cup {[NoTpl EXCEPT !.kind = k] : k \in {"invalid", "scalar"}}
CsarArchives ==
    {[zip |-> "valid", files |-> fl, meta |-> m, inline |-> NoInline,
      artifacts |-> NoArtifacts, tpl |-> t, bytes |-> "orig"] :
        fl \in SUBSET {"service.yaml", "art.bin"}, m \in CsarMetaTexts, t \in Tpls}
    \cup FewArchives

\* the accessors, lines 104-128; ret is the value returned, meta the
\* mapping get_metadata() returns a copy of, pending: the accessor is in
\* the validate() it called
NoGet == [op |-> "none", exc |-> NoErr, ret |-> Null, meta |-> NoneMeta,
          pending |-> FALSE]
Raised(op, e) == [NoGet EXCEPT !.op = op, !.exc = e]
Returned(op, val) == [NoGet EXCEPT !.op = op, !.ret = val]
InValidate(op) == [NoGet EXCEPT !.op = op, !.pending = TRUE]
\* dict.get(key)
DictGet(val) == IF Has(val) THEN val ELSE Null

\* get_metadata, line 112: dict(self.metadata) if self.metadata else None
GetMetadata(o) ==
    IF o.metadata.isNone THEN Returned("get_metadata", Null)
    ELSE [Returned("get_metadata", [t |-> "dict", v |-> ""]) EXCEPT
             !.meta = o.metadata]

\* _get_metadata, line 117: self.metadata.get(key)
GetKey(op, o, val) ==
    IF o.metadata.isNone
    THEN Raised(op, Exc("AttributeError", "'NoneType' object has no attribute 'get'"))
    ELSE Returned(op, DictGet(val))

\* get_main_template, lines 125-128
MainTemplate(o) ==
    LET r == GetKey("get_main_template", o, o.metadata.entry) IN
    IF r.exc # NoErr THEN r
    ELSE IF InNamelist(o.zfile.data, r.ret) THEN r
    ELSE Returned("get_main_template", Null)

\* the statements of an accessor that follow its "if not self.is_validated"
Accessor(op, o) ==
    CASE op = "get_metadata" -> GetMetadata(o)
      [] op = "get_author" -> GetKey(op, o, o.metadata.author)
      [] op = "get_version" -> GetKey(op, o, o.metadata.av)
      [] OTHER -> MainTemplate(o)

\* what the checks of a running validate() raised; checked: the reference
\* checks ran; live: the extracted tree was on disk when they ran
NoPending == [exc |-> NoErr, checked |-> FALSE, live |-> FALSE]

\* validate() is called: lines 45-98
CValidate ==
    /\ mode \in {"csar", "access"}
    /\ cpc = "idle"
    /\ LET r == CsarValidate(cobj, fs, net) IN
       /\ cobj' = r.obj
       /\ cpend' = NoPending
       /\ IF r.exc # NoErr
          THEN cres' = [op |-> "validate", exc |-> r.exc, ret |-> FALSE] /\ cpc' = "idle"
          ELSE cres' = cres /\ cpc' = "decompress"
    /\ UNCHANGED <<mode, fs, net, cget, cvalid, readerVars, writerVars, sigVars, artVars, pairVars>>

\* line 173: self.decompress()
CDecompress ==
    /\ cpc = "decompress"
    /\ LET r == Decompress(cobj, fs, cobj.zfile.data) IN
       /\ cobj' = r.obj
       /\ fs' = r.fs
       /\ cpend' = [NoPending EXCEPT !.exc = r.exc]
       /\ cpc' = IF r.exc = NoErr THEN "refs" ELSE "finally"
    /\ UNCHANGED <<mode, net, cres, cget, cvalid, readerVars, writerVars, sigVars, artVars, pairVars>>

\* lines 174-228: the main template is read and its references checked
CReferences ==
    /\ cpc = "refs"
    /\ cpend' = [exc |-> ValidateExternalReferences(cobj.zfile.data,
                                                    Node(fs, cobj.temp_dir).data,
                                                    cobj.metadata),
                 checked |-> TRUE, live |-> IsDir(fs, cobj.temp_dir)]
    /\ cpc' = "finally"
    /\ UNCHANGED <<mode, fs, net, cobj, cres, cget, cvalid, readerVars, writerVars, sigVars, artVars, pairVars>>

\* lines 229-231 and 101: the finally clause, then validate() raises or
\* returns, to its caller or into the accessor that called it
CFinally ==
    /\ cpc = "finally"
    /\ LET r == Finally(cobj, fs, cpend.exc) IN
       /\ fs' = r.fs
       /\ cres' = [op |-> "validate", exc |-> r.exc,
                   ret |-> r.exc = NoErr /\ ~cobj.error_caught]
       /\ cvalid' = (cvalid \/ r.exc = NoErr)
       /\ cget' = IF ~cget.pending THEN cget
                  ELSE IF r.exc # NoErr THEN Raised(cget.op, r.exc)
                  ELSE Accessor(cget.op, cobj)
    /\ cpc' = "idle"
    /\ UNCHANGED <<mode, net, cobj, cpend, readerVars, writerVars, sigVars, artVars, pairVars>>

\* an accessor is called: lines 108-109 and 115-116 call validate() unless
\* is_validated is set, then the accessor goes on
CGet(op) ==
    /\ cpc = "idle"
    /\ IF cobj.is_validated
       THEN /\ cget' = Accessor(op, cobj)
            /\ UNCHANGED <<cobj, cres, cpc, cpend>>
       ELSE LET r == CsarValidate(cobj, fs, net) IN
            /\ cobj' = r.obj
            /\ cpend' = NoPending
            /\ IF r.exc # NoErr
               THEN /\ cres' = [op |-> "validate", exc |-> r.exc, ret |-> FALSE]
                    /\ cget' = Raised(op, r.exc)
                    /\ cpc' = "idle"
               ELSE /\ cres' = cres
                    /\ cget' = InValidate(op)
                    /\ cpc' = "decompress"
    /\ UNCHANGED <<mode, fs, net, cvalid, readerVars, writerVars, sigVars, artVars, pairVars>>

\* get_metadata()
CGetMetadata == mode = "access" /\ CGet("get_metadata")
\* get_author()
CGetAuthor == mode = "access" /\ CGet("get_author")
\* get_version()
CGetVersion == mode = "access" /\ CGet("get_version")
\* get_main_template()
CGetMainTemplate == mode = "access" /\ CGet("get_main_template")

\* CSAR(csar_file, a_file)
InitCsar ==
    /\ mode = "csar"
    /\ \/ /\ fs \in {EmptyFs} \cup {[EmptyFs EXCEPT ![SrcZip] = File(a)] : a \in CsarArchives}
          /\ net = NoNet
          /\ cobj = NewCsar(SrcZip, TRUE)
       \/ /\ fs = EmptyFs
          /\ net \in {[outcome |-> o, data |-> a] : o \in {"ok", "refused"}, a \in FewArchives}
          /\ cobj = NewCsar(SrcUrl, FALSE)
    /\ ReaderIdle
    /\ WriterIdle

\* archives that differ in the check of validate() they fail, if any
AccessTpls ==
    {[kind |-> "mapping", hasImports |-> FALSE, imports |-> <<>>,
      artifacts |-> a, operations |-> <<>>] :
        a \in {<<>>, <<Entry("str", FALSE, RelOk)>>, <<Entry("str", FALSE, RelGone)>>}}
    \cup {[NoTpl EXCEPT !.kind = "invalid"]}
AccessArchives ==
    {[zip |-> "valid", files |-> fl, meta |-> m, inline |-> NoInline,
      artifacts |-> NoArtifacts, tpl |-> t, bytes |-> "orig"] :
        fl \in SUBSET {"service.yaml", "art.bin"}, m \in CsarMetaTexts, t \in AccessTpls}
    \cup FewArchives

\* CSAR(csar_file, a_file), to be validated and read through its accessors
InitAccess ==
    /\ mode = "access"
    /\ \/ /\ fs \in {EmptyFs} \cup {[EmptyFs EXCEPT ![SrcZip] = File(a)] : a \in AccessArchives}
          /\ net = NoNet
          /\ cobj = NewCsar(SrcZip, TRUE)
       \/ /\ fs = EmptyFs
          /\ net \in {[outcome |-> o, data |-> GoodArchive] : o \in {"ok", "refused"}}
          /\ cobj = NewCsar(SrcUrl, FALSE)
    /\ ReaderIdle
    /\ WriterIdle

\* create_signature / verify_signature on a builder whose output exists
InitSign ==
    /\ mode = "sign"
    /\ net = NoNet
    /\ fs \in {[EmptyFs EXCEPT ![OutZip] = File(a)] : a \in SignArchives}
    /\ wcsar = NewWriter(SrcDir, "service.yaml", "Ann", OutZip)
    /\ wpc = "idle"
    /\ ReaderIdle
    /\ CsarIdle

\* _validate_artifact on a reader whose archive is extracted
InitArtifact ==
    /\ mode = "artifact"
    /\ net = NoNet
    /\ \E t \in ArtifactTrees :
         /\ fs = [EmptyFs EXCEPT ![SrcZip] = File(t), ![TmpDirR] = Dir(ExtractAll(t))]
         /\ csar = [NewReader(SrcZip, FALSE) EXCEPT !.local = SrcZip,
                        !.destination = TmpDirR, !.metadata = LoadMetaFile(t)]
    /\ pc = "idle"
    /\ WriterIdle
    /\ CsarIdle

\* the archives and the fetch outcomes of two instances run together
PairArchives == {GoodArchive, [GoodArchive EXCEPT !.meta.mfv = Plain("1.1")],
                 [Blank EXCEPT !.zip = "notzip"]}
PairNets == {NoNet, [outcome |-> "ok", data |-> GoodArchive],
             [outcome |-> "refused", data |-> GoodArchive],
             [outcome |-> "interrupted", data |-> GoodArchive]}
PairSourceTree == [Blank EXCEPT !.files = {"service.yaml"}]
\* CSARWriter(source, entry, author, output) of the pair
PairWriter == NewWriter(SrcDir, "service.yaml", "Ann", OutZip)

\* CSARReader(...) or CSARWriter(...), and a second CSARReader(...)
InitPair ==
    /\ mode = "pair"
    /\ fs \in {[EmptyFs EXCEPT ![SrcZip] = File(a), ![SrcZip2] = File(b),
                                ![SrcDir] = Dir(PairSourceTree)] :
                   a \in PairArchives, b \in PairArchives}
    /\ \/ /\ net \in PairNets
          /\ csar = IF net = NoNet THEN NewReader(SrcZip, FALSE)
                    ELSE NewReader(SrcUrl, TRUE)
          /\ pc = "retrieve"
          /\ WriterIdle
       \/ /\ net = NoNet
          /\ ReaderIdle
          /\ wcsar = PairWriter
          /\ wpc = "pre"
    /\ \/ /\ net2 \in PairNets
          /\ csar2 = IF net2 = NoNet THEN NewReader(SrcZip2, FALSE)
                     ELSE NewReader(SrcUrl, TRUE)
       \* the second reader is given the path the builder writes its archive to
       \/ /\ wpc = "pre"
          /\ net2 = NoNet
          /\ csar2 = NewReader(OutZip, FALSE)
    /\ pc2 = "retrieve"
    /\ fs0 = fs
    /\ CsarIdle

Init ==
    /\ \/ (InitRead \/ InitBuild \/ InitSign \/ InitCsar \/ InitAccess \/ InitArtifact)
          /\ SecondIdle
       \/ InitPair
    /\ err2 = NoErr
    /\ ran2 = <<>>
    /\ acall = NoArtifactCall
    /\ cpc = "idle"
    /\ cpend = NoPending
    /\ cget = NoGet
    /\ cvalid = FALSE
    /\ cres = NoCres
    /\ sigfile = NoSigFile
    /\ made = NoneMade
    /\ last = NoCall
    /\ err = NoErr
    /\ warns = {}
    /\ ran = <<>>
    /\ werr = NoErr
    /\ wreader = FALSE

Next ==
    \/ RRetrieve
    \/ RExtract
    \/ RValidateMetadata
    \/ RValidateEntryDefinitions
    \/ RValidateArtifacts
    \/ RDel
    \/ WValidatePre
    \/ WZip
    \/ WCreateMetadata
    \/ WCopy
    \/ WFinish
    \/ SCreateSignature
    \/ SVerifySignature
    \/ SAlterArchive
    \/ CValidate
    \/ CDecompress
    \/ CReferences
    \/ CFinally
    \/ CGetMetadata
    \/ CGetAuthor
    \/ CGetVersion
    \/ CGetMainTemplate
    \/ AValidateArtifact
    \/ AAlterArtifact
    \/ R2Retrieve
    \/ R2Extract
    \/ R2ValidateMetadata
    \/ R2ValidateEntryDefinitions
    \/ R2ValidateArtifacts
    \/ R2Del

Spec == Init /\ [][Next]_vars
(***************************************************************************)
(* The claims.                                                             *)
(***************************************************************************)
\* the stage has run in the reader's constructor
Ran(stage) == \E i \in 1..Len(ran) : ran[i] = stage
\* the reader's constructor left the stage with an exception
FailedAt(stage) == pc \in {"failed", "destroyed"} /\ err # NoErr
                   /\ Len(ran) > 0 /\ ran[Len(ran)] = stage
\* the builder's constructor is over
Built == mode = "build" /\ wpc \in {"done", "failed"}
\* the error kinds of the specification, as the exceptions the code raises
IsInvalidMetadata(e) ==
    /\ e.type = "RuntimeError"
    /\ e.msg \in {"Missing metadata", "Metadata must be 1.0", "Metadata must be 1.1",
                  "Missing metadata section",
                  "Exactly 1 YAML file must exist in the CSAR root directory"}
IsMissingArtifact(e) ==
    e.type = "RuntimeError" /\ e.msg = "Artifact declared, but file does not exist"
IsInvalidArgument(e) ==
    e.type = "RuntimeError" /\ e.msg = "digest or sigfile must be set"

\* C1: once the builder's constructor has failed in its self-validation, no
\* archive written by that build is left at the output path.
C1_NoInvalidOutput ==
    (Built /\ wpc = "failed" /\ Ran("retrieve")) => ~Exists(fs, wcsar.destination)

\* C2: the builder's constructor completes, and sets self.reader, only if the
\* reader's constructor succeeded; when the reader's constructor raised, the
\* builder's constructor raises that very exception.
C2_ReaderErrorSurfaced ==
    Built =>
        /\ (wpc = "done" \/ wreader) => (Ran("artifacts") /\ err = NoErr)
        /\ (Ran("retrieve") /\ err # NoErr) => (wpc = "failed" /\ werr = err)
\* C2 witness: the reader rejected the built archive for its entry file and
\* the builder raised the same exception.
C2_Witness ==
    /\ Built
    /\ err = RuntimeError("points to a file that does not exist",
                          META_ENTRY_DEFINITIONS_KEY)
    /\ werr = err

\* C3: a build from a source directory that contains the entry file, with
\* a non-empty author, ends with the constructor completed and a reader
\* whose metadata is the record the builder wrote.
C3_BuildReadRoundTrip ==
    (/\ Built
     /\ IsDir(fs, wcsar.source)
     /\ wcsar.entry \in Node(fs, wcsar.source).data.files
     /\ wcsar.metadata.author.v # "")
    => (wpc = "done" /\ wreader /\ csar.metadata = wcsar.metadata)

\* C4: when a reader has been destroyed its scratch file and scratch
\* directory are gone, and when a builder's constructor is over and its
\* reader destroyed, the builder's scratch file is gone.
C4_ScratchReleased ==
    /\ pc = "destroyed" => (~Exists(fs, TmpFileR) /\ ~Exists(fs, TmpDirR))
    /\ (Built /\ pc \in {"idle", "destroyed"}) => ~Exists(fs, TmpFileW)

TextIs(tok, x) == tok.p # "absent" /\ Str(YamlLoadScalar(tok)) = x
TextNonEmpty(tok) == tok.p # "absent" /\ tok.text # ""
MetaFileGood(text) ==
    /\ text.kind = "mapping"
    /\ TextIs(text.mfv, "1.0")
    /\ TextIs(text.av, "1.1")
    /\ TextNonEmpty(text.author)
    /\ TextNonEmpty(text.entry)
MetaKeys == {META_FILE_VERSION_KEY, META_CSAR_VERSION_KEY, META_CREATED_BY_KEY,
             META_ENTRY_DEFINITIONS_KEY}

\* C7: for an archive with TOSCA-Metadata/TOSCA.meta, the metadata stage
\* succeeds and stores the record if and only if the file gives
\* metadata-file-version 1.0, archive-version 1.1 and a non-empty author and
\* entry-definitions; otherwise the constructor fails with InvalidMetadata
\* naming a key and stores no record.
C7_MetadataFileIff ==
    (Ran("metadata") /\ pc # "destroyed" /\ csar.destination # None
     /\ HasMetadataFile(Tree(fs, csar)))
    => IF MetaFileGood(Tree(fs, csar).meta)
       THEN ~FailedAt("metadata") /\ ~csar.metadata.isNone
       ELSE /\ FailedAt("metadata")
            /\ IsInvalidMetadata(err)
            /\ err.arg \in MetaKeys
            /\ csar.metadata.isNone

\* the root-level files of a tree whose names end in .yaml or .yml
RootYamlFiles(tree) == {n \in tree.files : n \in RootYaml /\ Ext(n) \in {"yaml", "yml"}}

\* C8: for an archive without TOSCA-Metadata/TOSCA.meta, a number of
\* root-level YAML files other than one makes the constructor fail with
\* InvalidMetadata in the metadata stage, before any metadata section is read.
C8_InlineExactlyOne ==
    (Ran("metadata") /\ pc # "destroyed" /\ csar.destination # None
     /\ ~HasMetadataFile(Tree(fs, csar))
     /\ Cardinality(RootYamlFiles(Tree(fs, csar))) # 1)
    => /\ FailedAt("metadata")
       /\ err = RuntimeError("Exactly 1 YAML file must exist in the CSAR root directory", "")

\* C9: after a reader's constructor succeeded, and after CSAR.validate()
\* returned true, the recorded entry-definitions is a non-empty relative
\* path naming a file of the archive.
C9_EntryDefinitionsExists ==
    /\ pc = "ok" =>
          /\ csar.metadata.entry.t = "str"
          /\ csar.metadata.entry.v # ""
          /\ csar.metadata.entry.v \in Tree(fs, csar).files
    /\ (cres.op = "validate" /\ cres.exc = NoErr /\ cres.ret) =>
          /\ cobj.metadata.entry.t = "str"
          /\ cobj.metadata.entry.v # ""
          /\ cobj.metadata.entry.v \in cobj.zfile.data.files

\* C10: when the artifact stage runs on metadata declaring an artifact with
\* no file under the extracted root, the constructor fails with
\* MissingArtifact; when every declared artifact has its file, it does not.
C10_MissingArtifact ==
    (Ran("artifacts") /\ pc # "destroyed")
    => LET unbacked == {n \in DOMAIN csar.metadata.artifacts :
                           n \notin Tree(fs, csar).files}
       IN IF unbacked # {} THEN FailedAt("artifacts") /\ IsMissingArtifact(err)
          ELSE ~IsMissingArtifact(err)

IsDigestMismatch(e) == e.type = "RuntimeError" /\ e.msg = "Artifact digest mismatch"
IsInvalidFormat(e) ==
    e.type = "RuntimeError"
    /\ e.msg \in {"CSAR file is not in ZIP format", "is not a valid zip file"}

\* C11: _validate_artifact, on an artifact whose file exists, whose
\* content-type is well formed and whose signature names a known algorithm
\* and gives the base64 text of the raw digest bytes of the content the file
\* had when it was signed, raises nothing while the file has that content and
\* raises DigestMismatch once a byte of the content has changed.
C11_SignedArtifact ==
    (/\ acall.op = "validate"
     /\ acall.name \in acall.tree.files
     /\ acall.desc.hasct
     /\ Len(acall.desc.ct) >= 2
     /\ acall.desc.sig.present
     /\ acall.desc.sig.algo \in HashAlgos
     /\ acall.desc.sig.digest = Digest("b64", "raw", acall.desc.sig.algo, "orig"))
    => IF acall.tree.bytes = "orig" THEN acall.err = NoErr
       ELSE IsDigestMismatch(acall.err)

\* C12: the exception _validate_artifact raises, or its raising none, is the
\* same whatever well-formed content-type the descriptor declares (with or
\* without the vendor prefix, known to the MIME table or not, equal to the
\* guessed type or not); when it raises nothing, a content-type that differs
\* from the guessed type has been logged as a warning.
C12_WarningsOnly ==
    (acall.op = "validate" /\ acall.desc.hasct /\ Len(acall.desc.ct) >= 2)
    => /\ \A ct \in ContentTypes :
             ValidateArtifact(acall.tree, acall.name,
                              [acall.desc EXCEPT !.ct = ct]).err = acall.err
       /\ (acall.err = NoErr /\ GuessType(acall.name) # acall.desc.ct)
             => "content-type does not match MIME type" \in acall.warns
\* C12 witness: a call that raised nothing and logged content-type warnings.
C12_Witness ==
    /\ acall.op = "validate"
    /\ acall.err = NoErr
    /\ "content-type does not match MIME type" \in acall.warns
    /\ "subtype should start with vnd." \in acall.warns

\* C13: an archive with a member whose name has ".." segments is rejected
\* with InvalidFormat by the reader's extraction stage, which is then the
\* last stage run, and by CSAR.decompress(), after which no reference is
\* checked.
C13_TraversalRejected ==
    /\ (/\ Ran("extract")
        /\ pc # "destroyed"
        /\ IsZipfile(fs, csar.local)
        /\ Traversal \in Node(fs, csar.local).data.files)
       => (FailedAt("extract") /\ IsInvalidFormat(err))
    /\ (cpc \in {"refs", "finally"} /\ Traversal \in cobj.zfile.data.files)
       => (IsInvalidFormat(cpend.exc) /\ ~cpend.checked)

\* validate() is over and its reference checks ran on a main template that
\* is a mapping
Examined ==
    /\ cpc = "idle"
    /\ cres.op = "validate"
    /\ cpend.checked
    /\ Truthy(GetMainTemplate(cobj.zfile.data, cobj.metadata))
    /\ cobj.zfile.data.tpl.kind = "mapping"
\* the main template and the tree that was extracted for the checks
CTpl == cobj.zfile.data.tpl
CTree == ExtractAll(cobj.zfile.data)
SeqRange(sq) == {sq[i] : i \in DOMAIN sq}
\* the artifact entries that carry a reference, and the implementation fields
MandatoryArtifacts(tpl) ==
    {e \in SeqRange(tpl.artifacts) : e.form = "str" \/ (e.form = "dict" /\ e.has)}
Implementations(tpl) ==
    {e \in SeqRange(tpl.operations) : e.form = "dict" /\ e.has}
Imports(tpl) == IF tpl.hasImports THEN SeqRange(tpl.imports) \ {BaseProfile} ELSE {}
MandatoryRefs(tpl) ==
    {e.ref : e \in MandatoryArtifacts(tpl) \cup Implementations(tpl)} \cup Imports(tpl)
\* the value is a relative path to a file of the extracted tree
InsideTree(tree, ref) == ref.kind = "rel" /\ ref.name \in tree.files
\* the value is a relative path with no file behind it or an unreachable URL
Unresolved(tree, ref) ==
    \/ ref.kind = "rel" /\ ref.name \notin tree.files
    \/ ref.kind = "url" /\ ~UrlAccessible(ref.name)
IsMissingReference(e) ==
    /\ e.type = "RuntimeError"
    /\ e.msg \in {"The resource does not exist", "The resource cannot be accessed",
                  "import does not exist", "import cannot be accessed"}
IsInvalidReference(e) ==
    e.type = "RuntimeError" /\ e.msg = "Unexpected artifact definition"

\* C14: when validate() has accepted an archive, every mandatory reference
\* of the main template (import, artifact file, implementation field) that
\* is a local path is a relative path to a file inside the extracted tree:
\* none is an absolute path and none leaves the tree through "..".
C14_LocalReferencesInside ==
    (Examined /\ cres.exc = NoErr)
    => \A r \in MandatoryRefs(CTpl) :
          r.kind \in {"rel", "abs", "up"} => InsideTree(CTree, r)

\* C15: validate() does not fail on a template whose only references are
\* bare-string operation values, resolvable or not; and it fails with
\* MissingReference when an artifact reference or an implementation field
\* is a relative path with no file behind it or an unreachable URL.
C15_AdvisoryOperations ==
    (Examined /\ ~CTpl.hasImports)
    => /\ (/\ CTpl.artifacts = <<>>
           /\ \A e \in SeqRange(CTpl.operations) : e.form = "str")
          => cres.exc = NoErr
       /\ (/\ \A e \in SeqRange(CTpl.artifacts) : e.form \in {"str", "dict"}
           /\ \E e \in MandatoryArtifacts(CTpl) \cup Implementations(CTpl) :
                 Unresolved(CTree, e.ref))
          => IsMissingReference(cres.exc)

\* C16: on a template with no artifact and no operation entries, validate()
\* raises nothing when the imports list is absent, empty or holds only the
\* base-profile literal, and when it holds, with or without the literal, only
\* imports that resolve; it fails when an import other than the literal
\* does not resolve.
C16_ImportStep ==
    (Examined /\ CTpl.artifacts = <<>> /\ CTpl.operations = <<>>)
    => /\ (~CTpl.hasImports \/ CTpl.imports = <<>> \/ CTpl.imports = <<BaseProfile>>)
          => cres.exc = NoErr
       /\ (\A r \in Imports(CTpl) : InsideTree(CTree, r)) => cres.exc = NoErr
       /\ (\E r \in Imports(CTpl) : Unresolved(CTree, r)) => cres.exc # NoErr

\* C17: on a template without imports, validate() fails with
\* InvalidReference when an artifact entry is a mapping without a "file"
\* field, and fails with MissingReference when a bare-string entry or a
\* "file" field does not resolve.
C17_ArtifactEntries ==
    (Examined /\ ~CTpl.hasImports)
    => /\ (\E e \in SeqRange(CTpl.artifacts) : e.form = "dict" /\ ~e.has)
          => IsInvalidReference(cres.exc)
       /\ (\E e \in MandatoryArtifacts(CTpl) : Unresolved(CTree, e.ref))
          => IsMissingReference(cres.exc)

(***************************************************************************)
(* C19: constructing a reader runs retrieval, extraction, the metadata     *)
(* check, the check of the Entry-Definitions reference and the artifact    *)
(* check in this order, each at most once; a stage starts only when every  *)
(* earlier stage has succeeded, and after the first failing stage no       *)
(* later stage runs.                                                       *)
(***************************************************************************)
StageOrder == <<"retrieve", "extract", "metadata", "entry", "artifacts">>

StageStep(r, r1, e, p) ==
    r1 # r => /\ e = NoErr
              /\ p \notin {"failed", "destroyed"}
              /\ Len(r) < Len(StageOrder)
              /\ r1 = Append(r, StageOrder[Len(r) + 1])

C19_WitnessEarly == pc = "failed" /\ ran = <<"retrieve", "extract">>

(***************************************************************************)
(* C20: in CSAR.validate() every existence check of a reference is made    *)
(* while the extracted tree is on disk; when validate() has returned or    *)
(* raised, the tree is gone, whichever way it ended; and an exception      *)
(* raised by the checks is the exception the caller gets.                  *)
(***************************************************************************)
C20_TreeLifetime ==
    /\ cpend.checked => cpend.live
    /\ cpc = "idle" => ~Exists(fs, TmpDirC)
    /\ (cpc = "idle" /\ cres.op = "validate" /\ cpend.exc # NoErr)
           => cres.exc = cpend.exc

\* validate() has raised for a missing artifact file: the checks ran on the
\* live tree, the tree is gone and the caller got that exception
C20_Witness ==
    /\ cpc = "idle" /\ cres.op = "validate"
    /\ cpend.checked /\ cpend.live
    /\ cpend.exc = RuntimeError("The resource does not exist", "gone.bin")
    /\ cres.exc = cpend.exc
    /\ ~Exists(fs, TmpDirC)

(***************************************************************************)
(* C18: a reader or builder and a second reader, their steps interleaved   *)
(* in any order, each end with the exception, the stages and the files     *)
(* they end with when run alone on the initial files.  As stated, for any  *)
(* instances, this fails when the second reader is given the path the      *)
(* builder writes its archive to; it holds for instances none of which is  *)
(* given a path another one writes to.                                     *)
(***************************************************************************)
\* the first instance run alone: a reader, or a builder and its reader
Alone1 ==
    IF wpc = "idle"
    THEN LET a == AloneReader(NewReader(csar.source, csar.external), fs0, net) IN
         [err |-> a.err, ran |-> a.ran, csar |-> a.csar, fs |-> a.fs]
    ELSE LET b == AloneBuilder(PairWriter, fs0) IN
         [err |-> b.werr, ran |-> IF b.started THEN b.reader.ran ELSE <<>>,
          csar |-> b.reader.csar, fs |-> b.fs]
\* the second instance run alone, with the names it was handed
Alone2 ==
    LET a == AloneReader(NewReader(csar2.source, csar2.external), SwapFs(fs0), net2) IN
    [err |-> a.err, ran |-> a.ran, csar |-> SwapCsar(a.csar), fs |-> SwapFs(a.fs)]

Finished1 ==
    IF wpc = "idle" THEN pc \in {"ok", "failed", "destroyed"}
    ELSE wpc \in {"done", "failed"}
Finished2 == pc2 \in {"ok", "failed", "destroyed"}

\* the files an instance leaves: those of the run, less what __del__ removes
Left(a, p) == IF p = "destroyed" THEN Del(a.csar, a.fs) ELSE a.fs
\* the paths the instances write to
Own1 == {TmpFileR, TmpDirR, TmpFileW, OutZip}
Own2 == {Mk2(TmpFileR), Mk2(TmpDirR)}

Independent ==
    mode = "pair" =>
       /\ Finished1 =>
             /\ (IF wpc = "idle" THEN err ELSE werr) = Alone1.err
             /\ ran = Alone1.ran
             /\ \A p \in Own1 : fs[p] = Left(Alone1, pc)[p]
       /\ Finished2 =>
             /\ err2 = Alone2.err
             /\ ran2 = Alone2.ran
             /\ \A p \in Own2 : fs[p] = Left(Alone2, pc2)[p]
       /\ \A p \in {SrcZip, SrcZip2, SrcDir} : fs[p] = fs0[p]

\* no instance is given, as its source, the path another one writes to
SeparatePaths == wpc # "idle" => csar2.source # wcsar.destination

C18_WitnessBuilder ==
    /\ mode = "pair" /\ wpc = "failed" /\ Len(ran) = 5
    /\ csar2.source = SrcZip2 /\ pc2 = "destroyed" /\ Len(ran2) = 5
    /\ IsFile(fs, OutZip)

(***************************************************************************)
(* C22: destroying a reader removes only what the reader allocated.  For a *)
(* local source no step of the reader, its destruction included, changes   *)
(* the caller's archive, however the source path is written and whether    *)
(* construction succeeded or failed, and destruction changes nothing but   *)
(* the directory of mkdtemp(); only for a remote source is the file of     *)
(* mkstemp() removed, and a fetched file is removed.                       *)
(***************************************************************************)
Destroyed(p, p1) == p # "destroyed" /\ p1 = "destroyed"
Changed(f, f1) == {p \in Paths : f1[p] # f[p]}

TearDown(c, p, p1, r, r1, tmpfile, tmpdir) ==
    /\ (Destroyed(p, p1) \/ r1 # r) =>
          (~c.external => fs'[Normpath(c.source)] = fs[Normpath(c.source)])
    /\ Destroyed(p, p1) =>
          /\ Changed(fs, fs') \subseteq
                 (IF c.external THEN {tmpfile, tmpdir} ELSE {tmpdir})
          /\ \A q \in Changed(fs, fs') : fs'[q] = NoNode
          /\ (c.external /\ c.local # None) => ~Exists(fs', tmpfile)

C22_TearDownFrame ==
    [][/\ TearDown(csar, pc, pc', ran, ran', TmpFileR, TmpDirR)
       /\ TearDown(csar2, pc2, pc2', ran2, ran2', TmpFileR2, TmpDirR2)]_vars

\* a reader of "./pkg.zip" has run all its stages and was destroyed: the
\* archive is still there, the extracted tree is gone
C22_Witness ==
    /\ mode = "read" /\ pc = "destroyed"
    /\ csar.source = SrcZipDot /\ ~csar.external
    /\ Len(ran) = 5
    /\ fs[SrcZip] = File(GoodArchive)
    /\ ~Exists(fs, TmpDirR)

\* a reader of a URL was destroyed after its construction failed in the last
\* stage: the fetched file is gone
C22_WitnessRemote ==
    /\ mode = "read" /\ pc = "destroyed"
    /\ csar.external /\ csar.local = TmpFileR
    /\ Len(ran) = 5
    /\ ~Exists(fs, TmpFileR)

(***************************************************************************)
(* C21: on a CSAR object get_metadata(), get_author(), get_version() and   *)
(* get_main_template() return a value only if a validate() run on that     *)
(* object has succeeded; once validate() has raised, an accessor fails or  *)
(* validates again and does not return metadata of the rejected archive.   *)
(***************************************************************************)
ReturnedValue ==
    cget.op # "none" /\ ~cget.pending /\ cget.exc = NoErr /\ cget.ret # Null

C21_AccessorsNeedValidation == ReturnedValue => cvalid

====
